---------------------------- MODULE Spec2Model ----------------------------
(***************************************************************************)
(* The <embed-mermaid> custom element of zenn-embed-elements               *)
(* (packages/zenn-embed-elements/src/classes/mermaid.ts).                  *)
(*                                                                         *)
(* The page is a single-threaded event loop.  Tasks (the host attaching or *)
(* detaching a widget, an intersection notification, the script's load or  *)
(* error event) start only when the microtask queue is empty; every        *)
(* `await` of the code puts the continuation of the async function on the  *)
(* microtask queue.  The clock read by Date.now() has millisecond          *)
(* resolution and may or may not have advanced between two readings.       *)
(*                                                                         *)
(* mermaid.js itself is third-party: mermaidAPI.parse either returns or    *)
(* throws (an arbitrary choice per call), mermaidAPI.render (version 8.13) *)
(* calls its callback synchronously with the svg markup.                   *)
(***************************************************************************)
EXTENDS Integers, Sequences, FiniteSets

\* ------------------------------------------------------------- bounds
\* connectedCallback calls on the page
MaxAttach == 3
\* render() invocations on the page
MaxRenders == 2
\* the largest reading of the millisecond clock
MaxNow == 1
\* entries one intersection notification may carry
MaxEntries == 3
\* inline tokens in the markdown text handed to the converter
MaxInline == 5

\* ------------------------------------------------- program constants
MAX_CHAR_LIMIT == 2000
MAX_CHAINING_OF_LINKS_LIMIT == 10

\* the widget instances on the page
Widgets == {"w1", "w2"}

\* ---------------------------------------------------------------- text
\* A text is kept run-length encoded: a sequence of runs, each a character
\* c repeated n >= 1 times.  The empty text is <<>>.
Rep(c, n) == IF n = 0 THEN <<>> ELSE <<[c |-> c, n |-> n]>>

\* String.prototype.length
RECURSIVE Length(_)
Length(s) == IF s = <<>> THEN 0 ELSE Head(s).n + Length(Tail(s))

\* faulty variant of MatchCount: the regular expression lacks the g flag,
\* so match() reports the first occurrence only
MatchCountFirst(s, ch) ==
    IF \E i \in 1..Len(s) : s[i].c = ch THEN 1 ELSE 0

\* (source.match(/&/g) || []).length: the occurrences of ch in s
RECURSIVE MatchCount(_, _)
MatchCount(s, ch) ==
    IF s = <<>> THEN 0
    ELSE (IF Head(s).c = ch THEN Head(s).n ELSE 0) + MatchCount(Tail(s), ch)

\* the diagram sources the widgets are created with
Sources ==
    { Rep("a", 0),
      Rep("a", 1),
      Rep("a", MAX_CHAR_LIMIT + 1),
      Rep("&", MAX_CHAINING_OF_LINKS_LIMIT + 1) }

\* the text of the svg markup mermaidAPI.render hands to its callback
SvgText == Rep("s", 1)

\* ----------------------------------------------------------- DOM nodes
\* kind: "source" (the <pre> the widget is created with), "placeholder"
\* (a _tmpContainer div; n is the attachment that created it), "diagram"
\* (the div insert() creates), "text" (a text node), "errors" (the <ul> of
\* the error list; items are its <li> messages).
Node(kind, text, style, n, items) ==
    [kind |-> kind, text |-> text, style |-> style, n |-> n, items |-> items]

SourceNode(src) == Node("source", src, "", 0, <<>>)
PlaceholderNode(n) == Node("placeholder", <<>>, "", n, <<>>)
DiagramNode(svg) == Node("diagram", svg, "", 0, <<>>)
TextNode(t) == Node("text", t, "", 0, <<>>)

\* Node.nodeType = ELEMENT_NODE: only elements have setAttribute
IsElement(node) == node.kind # "text"

RECURSIVE Concat(_)
Concat(ss) == IF ss = <<>> THEN <<>> ELSE Head(ss) \o Concat(Tail(ss))

\* Node.textContent of the widget: the text of all its descendants
TextContent(ch) == Concat([i \in 1..Len(ch) |-> ch[i].text])

\* ------------------------------------------------- the risk heuristics
\* the <li> messages (the source's are Japanese; glossed in ASCII)
SyntaxErrorMessage == "<li>syntax error</li>"
CharLimitOverMessage == "<li>character limit per block is 2000</li>"
ChainingOfLinksOverMessage == "<li>limit of chaining by <code>&</code> per block is 10</li>"

\* faulty variant of Cool: the catch clause returns true as well
CoolAlways(threw) == TRUE

\* the try/catch around mermaidAPI.parse(source): threw says whether the
\* third-party parser threw on this call
Cool(threw) == IF threw THEN FALSE ELSE TRUE

\* faulty variant of GetPotentialPerformanceRisk: the length comparison
\* is >= instead of >
GetPotentialPerformanceRiskInclusive(source, threw) ==
    [ syntaxError |->
        [yes |-> ~Cool(threw), message |-> SyntaxErrorMessage],
      charLimitOver |->
        [yes |-> Length(source) >= MAX_CHAR_LIMIT,
         message |-> CharLimitOverMessage],
      chainingOfLinksOver |->
        [yes |-> MatchCount(source, "&") > MAX_CHAINING_OF_LINKS_LIMIT,
         message |-> ChainingOfLinksOverMessage] ]

GetPotentialPerformanceRisk(source, threw) ==
    [ syntaxError |->
        [yes |-> ~Cool(threw), message |-> SyntaxErrorMessage],
      charLimitOver |->
        [yes |-> Length(source) > MAX_CHAR_LIMIT,
         message |-> CharLimitOverMessage],
      chainingOfLinksOver |->
        [yes |-> MatchCount(source, "&") > MAX_CHAINING_OF_LINKS_LIMIT,
         message |-> ChainingOfLinksOverMessage] ]

\* faulty variant of AnyRisk: only the syntax check gates the rendering
AnyRiskSyntaxOnly(risk) == risk.syntaxError.yes

\* Object.values(risk).map((r) => r.yes).includes(true)
AnyRisk(risk) ==
    TRUE \in { risk.syntaxError.yes, risk.charLimitOver.yes,
               risk.chainingOfLinksOver.yes }

NoRisk ==
    [ syntaxError |-> FALSE, charLimitOver |-> FALSE,
      chainingOfLinksOver |-> FALSE ]

\* the three flags of a PotentialRisk
Flags(risk) ==
    [ syntaxError |-> risk.syntaxError.yes,
      charLimitOver |-> risk.charLimitOver.yes,
      chainingOfLinksOver |-> risk.chainingOfLinksOver.yes ]

\* faulty variant of ErrorItems: the character-limit item is interpolated
\* after the chaining item
ErrorItemsReordered(risk) ==
    (IF risk.syntaxError.yes THEN <<risk.syntaxError.message>> ELSE <<>>)
    \o (IF risk.chainingOfLinksOver.yes
        THEN <<risk.chainingOfLinksOver.message>> ELSE <<>>)
    \o (IF risk.charLimitOver.yes THEN <<risk.charLimitOver.message>> ELSE <<>>)

\* the <li> items of the template literal, in its fixed order
ErrorItems(risk) ==
    (IF risk.syntaxError.yes THEN <<risk.syntaxError.message>> ELSE <<>>)
    \o (IF risk.charLimitOver.yes THEN <<risk.charLimitOver.message>> ELSE <<>>)
    \o (IF risk.chainingOfLinksOver.yes
        THEN <<risk.chainingOfLinksOver.message>> ELSE <<>>)

ErrorHeading == "<span>mermaid cannot be rendered</span>"

\* faulty variant of ErrorListChildren: the list is appended to the
\* children instead of replacing them
ErrorListAppended(ch, risk) ==
    ch \o << TextNode(Rep(" ", 1)),
             Node("errors", Rep(ErrorHeading, 1), "", 0, ErrorItems(risk)) >>

\* this.innerHTML = `\n <p><span>..</span><ul>..</ul></p>\n`: every former
\* child is removed; the new first child is the white-space text node the
\* template literal starts with, followed by the list.  The text of the
\* list is kept as one run per message.
ErrorListChildren(ch, risk) ==
    << TextNode(Rep(" ", 1)),
       Node("errors",
            Concat([i \in 1..(1 + Len(ErrorItems(risk))) |->
                      Rep((<<ErrorHeading>> \o ErrorItems(risk))[i], 1)]),
            "", 0, ErrorItems(risk)) >>

\* sourceContainer.setAttribute('style', 'display:none') on childNodes[0]
HideSource(ch) == [ch EXCEPT ![1].style = "display:none"]

\* faulty variant of Insert: the svg replaces the widget's content
InsertReplacing(ch, svg) == <<DiagramNode(svg)>>

\* insert(svgCode): a new div holding the svg is appended to the widget
Insert(ch, svg) == Append(ch, DiagramNode(svg))

\* ---------------------------------------------------------------- state
VARIABLES
    source,             \* per widget: the diagram source it was created with
    children,           \* per widget: its childNodes
    attached,           \* per widget: whether it is in the document
    attachCount,        \* per widget: connectedCallback calls so far; this
                        \* numbers this.observer and this._tmpContainer
    observed,           \* per widget: the observers still observing their
                        \* placeholder (observer n observes placeholder n)
    script,             \* the <script id="mermaid-js"> element and with it
                        \* the global `mermaid`: absent, loading, loaded, failed
    loadScriptCalls,    \* executions of line 26
    initializeCalls,    \* executions of mermaid.initialize (line 36)
    apiInitializeCalls, \* executions of mermaidAPI.initialize (line 44)
    renders,            \* every render() invocation, in the order started
    micro,              \* the microtask queue: render() invocations to resume
    waiters,            \* render() invocations awaiting the script's load
    now,                \* the last reading of Date.now()
    config,             \* the configuration mermaidAPI renders with
    markdown,           \* the markdown text handed to markdownToHtml
    html                \* the html it returned (<<>> before the call)

vars ==
    << source, children, attached, attachCount, observed, script,
       loadScriptCalls, initializeCalls, apiInitializeCalls, renders, micro,
       waiters, now, config, markdown, html >>

\* the markdown converter is not part of the page
converter == << markdown, html >>

\* ------------------------------------------------ the markdown converter
\* markdownToHtml (zenn-markdown-html) hands the text to a CommonMark
\* parser with raw html and tables enabled.  A markdown text is kept as one
\* block: its kind ("paragraph", "table": one cell of a table row,
\* "fence": the line inside a fenced code block) and its inline tokens.
\* The html is the sequence of tags and text tokens.
\* The backtick character is written BackTick.
BackTick == "(backtick)"

MdTokens == {"foo", "bar", "<br>", BackTick}

EmptyDocument == [kind |-> "paragraph", content |-> <<>>]

\* the value of html before markdownToHtml has returned
Unconverted == <<"(no result)">>

\* faulty variant of Escape: code content is passed through unchanged
EscapeNone(tok) == tok

\* escapeHtml of one token of code content
Escape(tok) == IF tok = "<br>" THEN "&lt;br&gt;" ELSE tok

EscapeAll(s) == [i \in 1..Len(s) |-> Escape(s[i])]

\* the length of the backtick string starting at position i
RECURSIVE RunLength(_, _)
RunLength(s, i) ==
    IF i > Len(s) \/ s[i] # BackTick THEN 0 ELSE 1 + RunLength(s, i + 1)

\* the start of the first backtick string of length n at or after j, or 0
RECURSIVE FindCloser(_, _, _)
FindCloser(s, j, n) ==
    IF j > Len(s) THEN 0
    ELSE LET m == RunLength(s, j) IN
         IF m = 0 THEN FindCloser(s, j + 1, n)
         ELSE IF m = n THEN j
         ELSE FindCloser(s, j + m, n)

\* The inline rules from position i on: a backtick string opens a code
\* span closed by the next backtick string of equal length, whose content
\* is escaped; a backtick string without one is literal text; any other
\* token (text, an inline html tag) is emitted as it is.
RECURSIVE Inline(_, _)
Inline(s, i) ==
    IF i > Len(s) THEN <<>>
    ELSE LET n == RunLength(s, i) IN
         IF n = 0 THEN <<s[i]>> \o Inline(s, i + 1)
         ELSE LET k == FindCloser(s, i + n, n) IN
              IF k = 0
              THEN SubSeq(s, i, i + n - 1) \o Inline(s, i + n)
              ELSE <<"<code>">> \o EscapeAll(SubSeq(s, i + n, k - 1))
                   \o <<"</code>">> \o Inline(s, k + n)

MarkdownToHtml(doc) ==
    IF doc.kind = "fence"
    THEN <<"<pre><code>">> \o EscapeAll(doc.content) \o <<"</code></pre>">>
    ELSE IF doc.kind = "table"
    THEN <<"<table>", "<td>">> \o Inline(doc.content, 1)
         \o <<"</td>", "</table>">>
    ELSE IF doc.content = <<>> THEN <<>>
    ELSE <<"<p>">> \o Inline(doc.content, 1) \o <<"</p>">>

\* A paragraph does not begin with three backticks (the line would open a
\* fence) and the line inside a fence is not a closing fence.
WellFormed(doc) ==
    /\ doc.kind = "paragraph" => RunLength(doc.content, 1) < 3
    /\ doc.kind = "fence" =>
          ~(Len(doc.content) >= 3 /\ RunLength(doc.content, 1) = Len(doc.content))

Documents ==
    { doc \in [ kind : {"paragraph", "table", "fence"},
                content : UNION { [1..n -> MdTokens] : n \in 0..MaxInline } ] :
        WellFormed(doc) }

\* the inputs and expected outputs of br.test.ts
BrTestProse == [kind |-> "paragraph", content |-> <<"foo", "<br>", "bar">>]
BrTestProseHtml == <<"<p>", "foo", "<br>", "bar", "</p>">>
BrTestTable == [kind |-> "table", content |-> <<"foo", "<br>", "bar">>]
BrTestTableHtml == <<"foo", "<br>", "bar">>
BrTestInlineCode ==
    [kind |-> "paragraph", content |-> <<"foo", BackTick, "<br>", BackTick, "bar">>]
BrTestInlineCodeHtml ==
    <<"<p>", "foo", "<code>", "&lt;br&gt;", "</code>", "bar", "</p>">>
BrTestFence == [kind |-> "fence", content |-> <<"<br>">>]
BrTestFenceHtml == <<"&lt;br&gt;">>

\* mermaidAPI before mermaidAPI.initialize: the library's own defaults
LibraryDefaults ==
    [ initialized |-> FALSE, securityLevel |-> "default", htmlLabels |-> TRUE ]

\* the options of mermaidAPI.initialize({..}) that concern security
MermaidAPIOptions ==
    [ initialized |-> TRUE, securityLevel |-> "strict", htmlLabels |-> FALSE ]

\* faulty variant of ApiInitialize: the call is missing
ApiInitializeSkipped(cfg) == cfg

\* mermaid!.mermaidAPI.initialize({..})
ApiInitialize(cfg) == MermaidAPIOptions

\* typeof mermaid === 'undefined'
MermaidUndefined(s) == s # "loaded"

\* A render() invocation: the widget, the observer (attachment) whose
\* callback started it, where it is suspended, and what it did.
NewRender(w, att, pc) ==
    [ w |-> w, att |-> att, pc |-> pc, outcome |-> "pending",
      parse |-> "none", risk |-> NoRisk, renderId |-> -1 ]

Init ==
    /\ source \in [Widgets -> Sources]
    /\ children = [w \in Widgets |-> <<SourceNode(source[w])>>]
    /\ attached = [w \in Widgets |-> FALSE]
    /\ attachCount = [w \in Widgets |-> 0]
    /\ observed = [w \in Widgets |-> {}]
    /\ script = "absent"
    /\ loadScriptCalls = 0
    /\ initializeCalls = 0
    /\ apiInitializeCalls = 0
    /\ renders = <<>>
    /\ micro = <<>>
    /\ waiters = <<>>
    /\ now = 0
    /\ config = LibraryDefaults
    /\ markdown = EmptyDocument
    /\ html = Unconverted

\* ------------------------------------------------ connectedCallback
\* A new placeholder div is appended and becomes this._tmpContainer; a new
\* IntersectionObserver becomes this.observer and observes it.
ConnectedObserved(obs, n) == obs \cup {n}

RECURSIVE SumOver(_, _)
SumOver(f, S) ==
    IF S = {} THEN 0
    ELSE LET x == CHOOSE y \in S : TRUE IN f[x] + SumOver(f, S \ {x})

\* connectedCallback calls on the page so far
Attachments == SumOver(attachCount, Widgets)

Attach(w) ==
    /\ micro = <<>>
    /\ ~attached[w]
    /\ Attachments < MaxAttach
    /\ attached' = [attached EXCEPT ![w] = TRUE]
    /\ attachCount' = [attachCount EXCEPT ![w] = @ + 1]
    /\ children' =
         [children EXCEPT ![w] = Append(@, PlaceholderNode(attachCount[w] + 1))]
    /\ observed' =
         [observed EXCEPT ![w] = ConnectedObserved(@, attachCount[w] + 1)]
    /\ UNCHANGED << source, script, loadScriptCalls, initializeCalls,
                    apiInitializeCalls, renders, micro, waiters, now >>
    /\ UNCHANGED << config, converter >>

\* faulty variant of DisconnectedObserved: the observer is left observing
DisconnectedLeaked(obs, cur) == obs

\* --------------------------------------------- disconnectedCallback
\* this.observer.unobserve(this._tmpContainer); this.observer.disconnect()
DisconnectedObserved(obs, cur) == obs \ {cur}

Detach(w) ==
    /\ micro = <<>>
    /\ attached[w]
    /\ attached' = [attached EXCEPT ![w] = FALSE]
    /\ observed' =
         [observed EXCEPT ![w] = DisconnectedObserved(@, attachCount[w])]
    /\ UNCHANGED << source, children, attachCount, script, loadScriptCalls,
                    initializeCalls, apiInitializeCalls, renders, micro,
                    waiters, now >>
    /\ UNCHANGED << config, converter >>

\* ----------------------------------------------------------- loadScript
\* ../utils/load-script: a script element with the given id is added to
\* the document unless one is already present.  settle says when the
\* returned promise settles: "onload" with the element's load or error
\* event, "now" at once.  It is not stated when the promise of a skipped
\* load settles: wait chooses between the two.
LoadScript(s, wait) ==
    IF s = "absent"
    THEN [script |-> "loading", settle |-> "onload"]
    ELSE [script |-> s,
          settle |-> IF wait /\ s = "loading" THEN "onload" ELSE "now"]

\* ---------------------------------------------------- render(), started
\* The synchronous part of render(): initMermaid() up to its first await.
\* st holds the page state it reads and writes.
RenderStart(st, w, att, wait) ==
    LET r == Len(st.renders) + 1 IN
    IF ~MermaidUndefined(st.script)
    THEN \* initMermaid returns; `await` resumes render() in a microtask
         [st EXCEPT !.renders = Append(@, NewRender(w, att, "afterInit")),
                    !.micro = Append(@, r)]
    ELSE LET ls == LoadScript(st.script, wait) IN
         IF ls.settle = "onload"
         THEN [st EXCEPT !.script = ls.script,
                         !.loadScriptCalls = @ + 1,
                         !.renders = Append(@, NewRender(w, att, "awaitLoad")),
                         !.waiters = Append(@, r)]
         ELSE [st EXCEPT !.script = ls.script,
                         !.loadScriptCalls = @ + 1,
                         !.renders = Append(@, NewRender(w, att, "afterLoad")),
                         !.micro = Append(@, r)]

\* --------------------------------------- the IntersectionObserver callback
\* entries.forEach: every intersecting entry calls this.render() and then
\* this.observer?.unobserve(this._tmpContainer).
RECURSIVE ForEachEntry(_, _, _, _, _)
ForEachEntry(st, entries, w, att, wait) ==
    IF entries = <<>> THEN st
    ELSE ForEachEntry(
             IF Head(entries) THEN RenderStart(st, w, att, wait) ELSE st,
             Tail(entries), w, att, wait)

Intersecting(entries) == \E i \in 1..Len(entries) : entries[i]

IntersectingCount(entries) ==
    Cardinality({i \in 1..Len(entries) : entries[i]})

\* the observer's unobserve after a render: of this.observer, for
\* this._tmpContainer
CallbackObserved(obs, cur, entries) ==
    IF Intersecting(entries) THEN obs \ {cur} ELSE obs

\* The entries queued for one target between two notifications report
\* alternating states.
Alternating(entries) ==
    \A i \in 1..(Len(entries) - 1) : entries[i] # entries[i + 1]

EntryLists ==
    { e \in UNION { [1..n -> BOOLEAN] : n \in 1..MaxEntries } : Alternating(e) }

\* a placeholder intersects only while it is in the document
InDocument(w, n) ==
    /\ attached[w]
    /\ \E i \in 1..Len(children[w]) : children[w][i] = PlaceholderNode(n)

Notify(w, att, entries, wait) ==
    /\ micro = <<>>
    /\ att \in observed[w]
    /\ Intersecting(entries) => InDocument(w, att)
    /\ Len(renders) + IntersectingCount(entries) <= MaxRenders
    /\ LET st == ForEachEntry(
                     [ script |-> script, loadScriptCalls |-> loadScriptCalls,
                       renders |-> renders, micro |-> micro,
                       waiters |-> waiters ],
                     entries, w, att, wait)
       IN /\ script' = st.script
          /\ loadScriptCalls' = st.loadScriptCalls
          /\ renders' = st.renders
          /\ micro' = st.micro
          /\ waiters' = st.waiters
    /\ observed' =
         [observed EXCEPT ![w] = CallbackObserved(@, attachCount[w], entries)]
    /\ UNCHANGED << source, children, attached, attachCount, initializeCalls,
                    apiInitializeCalls, now >>
    /\ UNCHANGED << config, converter >>

\* a notification of some observer that still observes its placeholder
Notification ==
    \E w \in Widgets : \E att \in observed[w] :
       \E entries \in EntryLists, wait \in BOOLEAN :
          Notify(w, att, entries, wait)

\* ------------------------------------------- the script's load and error
SetPc(rs, which, pc) ==
    [i \in 1..Len(rs) |-> IF i \in which THEN [rs[i] EXCEPT !.pc = pc] ELSE rs[i]]

Range(q) == {q[i] : i \in 1..Len(q)}

\* script.onload: `mermaid` is defined and every pending loadScript promise
\* resolves; the awaiting initMermaid calls resume in order as microtasks
ScriptLoad ==
    /\ micro = <<>>
    /\ script = "loading"
    /\ script' = "loaded"
    /\ renders' = SetPc(renders, Range(waiters), "afterLoad")
    /\ micro' = waiters
    /\ waiters' = <<>>
    /\ UNCHANGED << source, children, attached, attachCount, observed,
                    loadScriptCalls, initializeCalls, apiInitializeCalls, now >>
    /\ UNCHANGED << config, converter >>

\* script.onerror: the promises reject, initMermaid and render() reject
ScriptError ==
    /\ micro = <<>>
    /\ script = "loading"
    /\ script' = "failed"
    /\ renders' =
         [i \in 1..Len(renders) |->
            IF i \in Range(waiters)
            THEN [renders[i] EXCEPT !.pc = "done", !.outcome = "failed"]
            ELSE renders[i]]
    /\ waiters' = <<>>
    /\ UNCHANGED << source, children, attached, attachCount, observed,
                    loadScriptCalls, initializeCalls, apiInitializeCalls,
                    micro, now >>
    /\ UNCHANGED << config, converter >>

\* -------------------------------------- initMermaid, after `await loadScript`
\* mermaid!.initialize(..); mermaid!.mermaidAPI.initialize(..): a
\* ReferenceError when `mermaid` is still undefined, which rejects render()
InitMermaidResume ==
    /\ micro # <<>>
    /\ LET r == Head(micro) IN
       /\ renders[r].pc = "afterLoad"
       /\ IF MermaidUndefined(script)
          THEN /\ renders' =
                    [renders EXCEPT ![r].pc = "done", ![r].outcome = "failed"]
               /\ micro' = Tail(micro)
               /\ UNCHANGED << initializeCalls, apiInitializeCalls, config >>
          ELSE /\ initializeCalls' = initializeCalls + 1
               /\ apiInitializeCalls' = apiInitializeCalls + 1
               /\ config' = ApiInitialize(config)
               /\ renders' = [renders EXCEPT ![r].pc = "afterInit"]
               /\ micro' = Append(Tail(micro), r)
    /\ UNCHANGED << source, children, attached, attachCount, observed, script,
                    loadScriptCalls, waiters, now >>
    /\ UNCHANGED converter

\* ------------------------------------- render(), after `await initMermaid()`
\* const content = this.textContent || this.innerText.  (innerText is
\* empty whenever textContent is.)
Content(ch) == TextContent(ch)

\* faulty variant of IsEmptyContent: the early return is missing
NeverEmptyContent(content) == FALSE

\* if (!content) return
IsEmptyContent(content) == content = <<>>

\* `${containerId}-${Date.now().valueOf()}-render`: the identifier is
\* determined by the clock value
RenderIdentifier(t) == t

\* The rest of render().  threw: whether mermaidAPI.parse throws on this
\* call.  The result is the new childNodes and what the invocation did.
RenderBody(ch, t, threw) ==
    LET content == Content(ch) IN
    IF IsEmptyContent(content)
    THEN [children |-> ch, outcome |-> "empty", parse |-> "none",
          risk |-> NoRisk, renderId |-> -1]
    ELSE IF ~IsElement(ch[1])
    THEN \* childNodes[0].setAttribute is not a function: TypeError
         [children |-> ch, outcome |-> "failed", parse |-> "none",
          risk |-> NoRisk, renderId |-> -1]
    ELSE LET hidden == HideSource(ch)
             risk == GetPotentialPerformanceRisk(content, threw)
         IN IF AnyRisk(risk)
            THEN [children |-> ErrorListChildren(hidden, risk),
                  outcome |-> "error",
                  parse |-> IF threw THEN "threw" ELSE "ok",
                  risk |-> Flags(risk), renderId |-> -1]
            ELSE \* mermaid?.mermaidAPI.render(id, content, insert, tmp)
                 [children |-> Insert(hidden, SvgText),
                  outcome |-> "diagram",
                  parse |-> IF threw THEN "threw" ELSE "ok",
                  risk |-> Flags(risk), renderId |-> RenderIdentifier(t)]

\* Date.now() at the call is the previous reading plus the milliseconds
\* elapsed since
RenderResume(threw, elapsed) ==
    /\ micro # <<>>
    /\ now + elapsed <= MaxNow
    /\ LET r == Head(micro)
           w == renders[r].w
           res == RenderBody(children[w], now + elapsed, threw)
       IN /\ renders[r].pc = "afterInit"
          /\ children' = [children EXCEPT ![w] = res.children]
          /\ renders' =
               [renders EXCEPT ![r].pc = "done",
                               ![r].outcome = res.outcome,
                               ![r].parse = res.parse,
                               ![r].risk = res.risk,
                               ![r].renderId = res.renderId]
          /\ now' = IF res.renderId = -1 THEN now ELSE now + elapsed
          /\ micro' = Tail(micro)
    /\ UNCHANGED << source, attached, attachCount, observed, script,
                    loadScriptCalls, initializeCalls, apiInitializeCalls,
                    waiters >>
    /\ UNCHANGED << config, converter >>

Next ==
    \/ \E w \in Widgets : Attach(w)
    \/ \E w \in Widgets : Detach(w)
    \/ Notification
    \/ ScriptLoad
    \/ ScriptError
    \/ InitMermaidResume
    \/ \E threw \in BOOLEAN, elapsed \in 0..1 : RenderResume(threw, elapsed)

Spec == Init /\ [][Next]_vars

\* ------------------------------------------------ the risk checks alone
\* getPotentialPerformanceRisk and the error list are functions of the
\* source and of what the parser did.  They are exercised on a page whose
\* two widgets are attached and visible, with the library loaded and both
\* render() calls about to run their part after `await initMermaid()`, for
\* sources around both limits.

\* a source of pre letters, then amps ampersands, then post letters, with
\* its length and its number of ampersands by construction
Block(pre, amps, post) ==
    [ text |-> Rep("a", pre) \o Rep("&", amps) \o Rep("a", post),
      len |-> pre + amps + post,
      amps |-> amps ]

\* a source of k ampersands, each followed by a letter, then pad letters
Spread(k, pad) ==
    [ text |-> Concat([i \in 1..k |-> Rep("&", 1) \o Rep("a", 1)])
                 \o Rep("a", pad),
      len |-> 2 * k + pad,
      amps |-> k ]

RiskCases ==
    { Block(1, 0, 0),
      Block(MAX_CHAR_LIMIT - 1, 0, 0),
      Block(MAX_CHAR_LIMIT, 0, 0),
      Block(MAX_CHAR_LIMIT + 1, 0, 0),
      Block(0, MAX_CHAINING_OF_LINKS_LIMIT, 0),
      Block(0, MAX_CHAINING_OF_LINKS_LIMIT + 1, 0),
      Block(MAX_CHAR_LIMIT - MAX_CHAINING_OF_LINKS_LIMIT,
            MAX_CHAINING_OF_LINKS_LIMIT, 0),
      Block(0, MAX_CHAINING_OF_LINKS_LIMIT,
            MAX_CHAR_LIMIT + 1 - MAX_CHAINING_OF_LINKS_LIMIT),
      Block(MAX_CHAR_LIMIT - MAX_CHAINING_OF_LINKS_LIMIT - 1,
            MAX_CHAINING_OF_LINKS_LIMIT + 1, 0),
      Block(5, MAX_CHAINING_OF_LINKS_LIMIT + 1,
            MAX_CHAR_LIMIT - MAX_CHAINING_OF_LINKS_LIMIT - 5),
      Spread(MAX_CHAINING_OF_LINKS_LIMIT, 0),
      Spread(MAX_CHAINING_OF_LINKS_LIMIT + 1, 0),
      Spread(MAX_CHAINING_OF_LINKS_LIMIT + 1,
             MAX_CHAR_LIMIT - 2 * MAX_CHAINING_OF_LINKS_LIMIT - 1) }

\* the case a widget's source was taken from
CaseOf(src) == CHOOSE c \in RiskCases : c.text = src

InitRisk ==
    /\ source \in [Widgets -> {c.text : c \in RiskCases}]
    /\ children =
         [w \in Widgets |-> <<SourceNode(source[w]), PlaceholderNode(1)>>]
    /\ attached = [w \in Widgets |-> TRUE]
    /\ attachCount = [w \in Widgets |-> 1]
    /\ observed = [w \in Widgets |-> {}]
    /\ script = "loaded"
    /\ loadScriptCalls = 2
    /\ initializeCalls = 2
    /\ apiInitializeCalls = 2
    /\ renders = << NewRender("w1", 1, "afterInit"),
                    NewRender("w2", 1, "afterInit") >>
    /\ micro = <<1, 2>>
    /\ waiters = <<>>
    /\ now = 0
    /\ config = MermaidAPIOptions
    /\ markdown = EmptyDocument
    /\ html = Unconverted

NextRisk ==
    \E threw \in BOOLEAN, elapsed \in 0..1 : RenderResume(threw, elapsed)

SpecRisk == InitRisk /\ [][NextRisk]_vars

\* -------------------------------------------- the markdown converter alone
\* markdownToHtml is called once on a markdown text, on a page whose
\* widgets are not attached.
InitMarkdown ==
    /\ source = [w \in Widgets |-> Rep("a", 1)]
    /\ children = [w \in Widgets |-> <<SourceNode(source[w])>>]
    /\ attached = [w \in Widgets |-> FALSE]
    /\ attachCount = [w \in Widgets |-> 0]
    /\ observed = [w \in Widgets |-> {}]
    /\ script = "absent"
    /\ loadScriptCalls = 0
    /\ initializeCalls = 0
    /\ apiInitializeCalls = 0
    /\ renders = <<>>
    /\ micro = <<>>
    /\ waiters = <<>>
    /\ now = 0
    /\ config = LibraryDefaults
    /\ markdown \in Documents
    /\ html = Unconverted

Convert ==
    /\ html = Unconverted
    /\ html' = MarkdownToHtml(markdown)
    /\ UNCHANGED << source, children, attached, attachCount, observed, script,
                    loadScriptCalls, initializeCalls, apiInitializeCalls,
                    renders, micro, waiters, now, config, markdown >>

NextMarkdown == Convert

SpecMarkdown == InitMarkdown /\ [][NextMarkdown]_vars

\* ============================================================ properties
Renders == 1..Len(renders)

\* the render() invocations the observer of attachment att of w started
RendersOf(w, att) == {r \in Renders : renders[r].w = w /\ renders[r].att = att}

HasKind(ch, kind) == \E i \in 1..Len(ch) : ch[i].kind = kind

\* the children of a widget that are a render result, in order
ResultNodes(ch) ==
    SelectSeq(ch, LAMBDA node : node.kind \in {"diagram", "errors"})

\* the step in which invocation r runs the rest of render()
RenderStep(r) == renders[r].pc = "afterInit" /\ renders'[r].pc = "done"

\* every attachment's observer started at most one render()
OneRenderPerAttachment ==
    \A w \in Widgets : \A att \in 1..MaxAttach :
        Cardinality(RendersOf(w, att)) <= 1

C2_RenderOncePerAttachment == OneRenderPerAttachment

\* ---------------------------------------------------------------- C3
\* C3: a render() call that found any risk flag true shows the error list
\* and never invokes mermaidAPI.render; mermaidAPI.render is invoked only
\* by a call whose three flags are all false.
C3_RiskBlocksRender ==
    \A r \in Renders :
        /\ renders[r].renderId # -1 =>
              /\ renders[r].risk = NoRisk
              /\ renders[r].parse = "ok"
        /\ renders[r].risk # NoRisk =>
              /\ renders[r].outcome = "error"
              /\ renders[r].renderId = -1
              /\ HasKind(children[renders[r].w], "errors")
              /\ ~HasKind(children[renders[r].w], "diagram")
              /\ ~HasKind(children[renders[r].w], "source")

\* a flagged call showed the error list and an unflagged one rendered
C3_Witness ==
    \E r1, r2 \in Renders :
        /\ renders[r1].risk.charLimitOver
        /\ renders[r1].outcome = "error"
        /\ renders[r2].renderId # -1

\* ---------------------------------------------------------------- C4
\* C4: once an attachment has ended (disconnectedCallback ran), its
\* observer starts no render() any more, so an attachment detached before
\* any intersecting notification never renders; detaching does not touch a
\* render() already started, which stays scheduled until it has run.
AttachmentEnded(w, att) ==
    /\ att <= attachCount[w]
    /\ att < attachCount[w] \/ ~attached[w]

C4_DetachCancelsPendingRender ==
    [][ /\ \A w \in Widgets : \A att \in 1..MaxAttach :
              AttachmentEnded(w, att) => RendersOf(w, att)' = RendersOf(w, att)
        /\ \A w \in Widgets :
              (attached[w] /\ ~attached'[w]) =>
                 /\ attachCount[w] \notin observed'[w]
                 /\ renders' = renders /\ micro' = micro /\ waiters' = waiters
        /\ \A r \in Renders :
              renders[r].pc # "done" => r \in Range(waiters) \cup Range(micro)
      ]_vars

\* a first attachment ended without a render, the second one started a
\* render, which is still awaiting the script while the widget is detached
C4_Witness ==
    \E w \in Widgets :
        /\ attachCount[w] = 2
        /\ ~attached[w]
        /\ RendersOf(w, 1) = {}
        /\ \E r \in RendersOf(w, 2) : renders[r].pc = "awaitLoad"

\* ---------------------------------------------------------------- C5
\* C5: no widget ever holds a rendered diagram and an error list together.
C5_ResultExclusive ==
    \A w \in Widgets :
        ~(HasKind(children[w], "diagram") /\ HasKind(children[w], "errors"))

\* a widget that rendered a diagram and, in a later render, an error list
C5_Witness ==
    \E r1, r2 \in Renders :
        /\ renders[r1].w = renders[r2].w
        /\ renders[r1].outcome = "diagram"
        /\ renders[r2].outcome = "error"
        /\ HasKind(children[renders[r1].w], "errors")

\* ---------------------------------------------------------------- C6
\* C6: once a widget shows a diagram or an error list, no later step
\* changes, adds to or removes that result.
\* Stated for the steps that leave every attachment with one render.
\* Violated: a re-attached widget renders again.
C6_ResultTerminal ==
    [][ \A w \in Widgets :
           (ResultNodes(children[w]) # <<>> /\ OneRenderPerAttachment') =>
              ResultNodes(children[w])' = ResultNodes(children[w]) ]_vars

\* ---------------------------------------------------------------- C7
\* C7: a source on which mermaidAPI.parse throws does not make render()
\* fail: the call ends showing the error list with the syntax-error item,
\* and syntaxError is true exactly when the parse threw.
C7_ParseErrorIsRisk ==
    \A r \in Renders :
        /\ renders[r].parse # "none" =>
              (renders[r].risk.syntaxError <=> renders[r].parse = "threw")
        /\ renders[r].parse = "threw" =>
              /\ renders[r].outcome = "error"
              /\ \E i \in 1..Len(children[renders[r].w]) :
                    /\ children[renders[r].w][i].kind = "errors"
                    /\ children[renders[r].w][i].items # <<>>
                    /\ children[renders[r].w][i].items[1] = SyntaxErrorMessage

\* the parse threw on a source within both limits
C7_Witness ==
    \E r \in Renders :
        /\ renders[r].parse = "threw"
        /\ ~renders[r].risk.charLimitOver
        /\ ~renders[r].risk.chainingOfLinksOver
        /\ renders[r].outcome = "error"

\* ---------------------------------------------------------------- C8
\* C8: a render() that finds the text content empty leaves the widget's
\* children and their attributes unchanged and calls neither
\* mermaidAPI.parse nor mermaidAPI.render.
C8_EmptyContentSilent ==
    [][ \A r \in Renders :
           (RenderStep(r) /\ Content(children[renders[r].w]) = <<>>) =>
              /\ children' = children
              /\ renders'[r].outcome = "empty"
              /\ renders'[r].parse = "none"
              /\ renders'[r].renderId = -1 ]_vars

\* a render of an attached widget with empty source has returned
C8_Witness ==
    \E r \in Renders :
        /\ renders[r].outcome = "empty"
        /\ source[renders[r].w] = <<>>
        /\ Len(children[renders[r].w]) = 2

\* ---------------------------------------------------------------- C9
\* C9: a render() that passes all checks keeps every child: the source
\* element stays the first child with its text unchanged and is hidden,
\* and the rendered markup is one new child appended after the others.
C9_SourceKept ==
    [][ \A r \in Renders :
           (RenderStep(r) /\ renders'[r].outcome = "diagram") =>
              LET w == renders[r].w IN
              /\ Len(children'[w]) = Len(children[w]) + 1
              /\ children'[w][Len(children'[w])].kind = "diagram"
              /\ \A i \in 2..Len(children[w]) : children'[w][i] = children[w][i]
              /\ children'[w][1].kind = "source"
              /\ children'[w][1].text = children[w][1].text
              /\ children'[w][1].text = source[w]
              /\ children'[w][1].style = "display:none" ]_vars

\* a rendered widget: hidden source, placeholder, diagram
C9_Witness ==
    \E r \in Renders :
        LET w == renders[r].w IN
        /\ renders[r].outcome = "diagram"
        /\ Len(children[w]) = 3
        /\ children[w][1] = HideSource(<<SourceNode(source[w])>>)[1]
        /\ children[w][3].kind = "diagram"

\* --------------------------------------------------------------- C10
\* C10: no two invocations of mermaidAPI.render pass the same identifier.
\* Stated for the pages on which every attachment rendered once.
\* Violated: two renders within the same millisecond.
C10_RenderIdUnique ==
    OneRenderPerAttachment =>
       \A r1, r2 \in Renders :
          (r1 # r2 /\ renders[r1].renderId # -1 /\ renders[r2].renderId # -1)
             => renders[r1].renderId # renders[r2].renderId

\* --------------------------------------------------------------- C11
\* C11: charLimitOver is true exactly when the source is longer than 2000
\* characters: a source of exactly 2000 characters is not flagged, one of
\* 2001 is, whatever the parser did and however many ampersands it holds.
C11_CharLimitBoundary ==
    \A r \in Renders :
        renders[r].parse # "none" =>
           LET c == CaseOf(source[renders[r].w]) IN
           /\ renders[r].risk.charLimitOver <=> c.len > 2000
           /\ c.len = 2000 => ~renders[r].risk.charLimitOver
           /\ c.len = 2001 => renders[r].risk.charLimitOver

\* a source of 2000 characters was not flagged although its parse threw
\* and it holds 11 ampersands; one of 2001 was flagged although its parse
\* returned and it holds none
C11_Witness ==
    \E r1, r2 \in Renders :
        /\ CaseOf(source[renders[r1].w]).len = 2000
        /\ CaseOf(source[renders[r1].w]).amps = 11
        /\ renders[r1].parse = "threw"
        /\ ~renders[r1].risk.charLimitOver
        /\ CaseOf(source[renders[r2].w]).len = 2001
        /\ CaseOf(source[renders[r2].w]).amps = 0
        /\ renders[r2].parse = "ok"
        /\ renders[r2].risk.charLimitOver

\* --------------------------------------------------------------- C12
\* C12: chainingOfLinksOver is true exactly when the source holds more
\* than 10 ampersands: 10 or none are not flagged, 11 are, wherever in the
\* source they stand.
C12_ChainLimitBoundary ==
    \A r \in Renders :
        renders[r].parse # "none" =>
           LET c == CaseOf(source[renders[r].w]) IN
           /\ renders[r].risk.chainingOfLinksOver <=> c.amps > 10
           /\ c.amps \in {0, 10} => ~renders[r].risk.chainingOfLinksOver
           /\ c.amps = 11 => renders[r].risk.chainingOfLinksOver

\* 10 ampersands separated by letters were not flagged, 11 separated by
\* letters were
C12_Witness ==
    \E r1, r2 \in Renders :
        /\ source[renders[r1].w] = Spread(10, 0).text
        /\ renders[r1].parse # "none"
        /\ ~renders[r1].risk.chainingOfLinksOver
        /\ source[renders[r2].w] = Spread(11, 0).text
        /\ renders[r2].parse # "none"
        /\ renders[r2].risk.chainingOfLinksOver

\* --------------------------------------------------------------- C13
\* C13: the error list holds one item per flagged risk: the message of a
\* risk is in the list exactly when its flag is true, the items stand in
\* the order syntax, character limit, chaining limit, and there are
\* between one and three of them.
C13_ErrorItemsMatchFlags ==
    \A r \in Renders :
        renders[r].outcome = "error" =>
           LET ch == children[renders[r].w]
               f == renders[r].risk
               items == ch[2].items
               Has(m) == \E i \in 1..Len(items) : items[i] = m
               Rank(m) == IF m = SyntaxErrorMessage THEN 1
                          ELSE IF m = CharLimitOverMessage THEN 2
                          ELSE IF m = ChainingOfLinksOverMessage THEN 3
                          ELSE 0
           IN /\ Len(ch) = 2 /\ ch[2].kind = "errors"
              /\ Has(SyntaxErrorMessage) <=> f.syntaxError
              /\ Has(CharLimitOverMessage) <=> f.charLimitOver
              /\ Has(ChainingOfLinksOverMessage) <=> f.chainingOfLinksOver
              /\ \A i \in 1..Len(items) : Rank(items[i]) > 0
              /\ \A i, j \in 1..Len(items) :
                    i < j => Rank(items[i]) < Rank(items[j])
              /\ Len(items) \in 1..3

\* one widget shows all three items, the other the last two only
C13_Witness ==
    /\ children["w1"][2].items =
          << SyntaxErrorMessage, CharLimitOverMessage,
             ChainingOfLinksOverMessage >>
    /\ children["w2"][2].items =
          << CharLimitOverMessage, ChainingOfLinksOverMessage >>

\* --------------------------------------------------------------- C14
\* C14: with render() started only by the widget's own observers, at most
\* one render() of a widget is in progress at any time, also when the
\* widget is detached and attached again while a render awaits the
\* library.
\* Stated for the pages on which every attachment rendered once.
\* Violated: the observer of the second attachment starts a render while
\* the one started by the first still awaits the script.
InProgress(w) == {r \in Renders : renders[r].w = w /\ renders[r].pc # "done"}

C14_OneRenderInProgress ==
    OneRenderPerAttachment =>
       \A w \in Widgets : Cardinality(InProgress(w)) <= 1

\* --------------------------------------------------------------- C15
\* C15: the markdown converter emits a <br> of the text raw when it stands
\* outside code (paragraph prose, a table cell) and as &lt;br&gt; when it
\* stands in an inline code span or a fenced code block; content of code
\* is never passed through as raw html.  The four cases of br.test.ts
\* give the expected outputs.
Count(s, tok) == Cardinality({i \in 1..Len(s) : s[i] = tok})

\* position p of the html lies inside a code element
InsideCode(h, p) ==
    Cardinality({q \in 1..(p - 1) : h[q] \in {"<code>", "<pre><code>"}})
      > Cardinality({q \in 1..(p - 1) : h[q] \in {"</code>", "</code></pre>"}})

\* h holds the tokens of part next to each other
Contains(h, part) ==
    \E o \in 0..(Len(h) - Len(part)) :
        \A i \in 1..Len(part) : h[o + i] = part[i]

\* no two backticks of the text are adjacent
SingleBackticks(s) == \A i \in 1..Len(s) : RunLength(s, i) <= 1

\* for such a text: position i lies between an odd-numbered backtick and
\* the backtick that follows it
BetweenBackticks(s, i) ==
    /\ Cardinality({j \in 1..(i - 1) : s[j] = BackTick}) % 2 = 1
    /\ \E j \in (i + 1)..Len(s) : s[j] = BackTick

C15_BrRawOutsideCodeOnly ==
    html # Unconverted =>
       LET c == markdown.content IN
       /\ \A p \in 1..Len(html) :
             /\ html[p] = "<br>" => ~InsideCode(html, p)
             /\ html[p] = "&lt;br&gt;" => InsideCode(html, p)
       /\ Count(html, "<br>") + Count(html, "&lt;br&gt;") = Count(c, "<br>")
       /\ markdown.kind = "fence" => Count(html, "<br>") = 0
       /\ (markdown.kind # "fence" /\ SingleBackticks(c)) =>
             Count(html, "<br>") =
                Cardinality({i \in 1..Len(c) :
                               c[i] = "<br>" /\ ~BetweenBackticks(c, i)})
       /\ markdown = BrTestProse => html = BrTestProseHtml
       /\ markdown = BrTestTable => Contains(html, BrTestTableHtml)
       /\ markdown = BrTestInlineCode => html = BrTestInlineCodeHtml
       /\ markdown = BrTestFence => Contains(html, BrTestFenceHtml)

\* a paragraph with one <br> in prose and one in a code span was converted
C15_Witness ==
    /\ markdown =
          [kind |-> "paragraph", content |-> <<"<br>", BackTick, "<br>", BackTick>>]
    /\ html = <<"<p>", "<br>", "<code>", "&lt;br&gt;", "</code>", "</p>">>

\* --------------------------------------------------------------- C16
\* C16: no source is parsed or rendered by an unconfigured library:
\* whenever initMermaid has returned to a render(), and whenever
\* mermaidAPI.parse or mermaidAPI.render has been called, the script is
\* loaded and mermaidAPI.initialize has completed with securityLevel
\* strict and htmlLabels false.
C16_ConfiguredBeforeUse ==
    \A r \in Renders :
        ( \/ renders[r].pc = "afterInit"
          \/ renders[r].parse # "none"
          \/ renders[r].renderId # -1 ) =>
           /\ script = "loaded"
           /\ apiInitializeCalls >= 1
           /\ config.initialized
           /\ config.securityLevel = "strict"
           /\ config.htmlLabels = FALSE

\* one render() initialized the library and parsed its source; for a
\* later one initMermaid found the library and returned without loading
C16_Witness ==
    \E r1, r2 \in Renders :
        /\ renders[r1].parse # "none"
        /\ renders[r2].pc = "afterInit"
        /\ loadScriptCalls = 1
        /\ apiInitializeCalls = 1

\* --------------------------------------------------------------- C17
\* C17: a widget with non-empty source whose placeholder became visible
\* eventually shows a result, provided the script's load completes and
\* the pending continuations are run: the diagram or the error list.
\* As a property of finite runs: once the script is loaded and every
\* render() of such a widget has returned or failed, the widget shows a
\* result (nothing else would give it one any more).
\* Violated: a render() whose loadScript was skipped and settled while
\* the script was still loading fails, and its observer is deregistered.
BecameVisible(w) == \E r \in Renders : renders[r].w = w

C17_VisibleWidgetShowsResult ==
    \A w \in Widgets :
        ( /\ source[w] # <<>>
          /\ BecameVisible(w)
          /\ InProgress(w) = {}
          /\ script = "loaded" ) =>
           ResultNodes(children[w]) # <<>>

\* --------------------------------------------------------------- C18
\* C18: whenever render() reaches the hide step (the content is not
\* empty), the widget's first child is the source element, so the hide
\* succeeds and render() does not fail there, also in a render after the
\* widget was attached again showing the error list.
\* Stated for the steps that leave every attachment with one render.
\* Violated: the error list's first child is a text node.
C18_HideFindsSource ==
    [][ \A r \in Renders :
           LET w == renders[r].w IN
           ( /\ RenderStep(r)
             /\ ~IsEmptyContent(Content(children[w]))
             /\ OneRenderPerAttachment' ) =>
              /\ children[w][1].kind = "source"
              /\ children[w][1].text = source[w]
              /\ renders'[r].outcome # "failed" ]_vars

\* --------------------------------------------------------------- C19
\* C19: a widget never holds more than one rendered diagram and never
\* more than one placeholder among its children.
\* Violated: every connectedCallback appends a placeholder and none is
\* ever removed.
CountKind(ch, kind) == Cardinality({i \in 1..Len(ch) : ch[i].kind = kind})

C19_OneDiagramOnePlaceholder ==
    \A w \in Widgets :
        /\ CountKind(children[w], "diagram") <= 1
        /\ CountKind(children[w], "placeholder") <= 1

=============================================================================
